---- MODULE Spec2Model ----
(***************************************************************************)
(* Model of memory_service: the MemoryStore (store.py), the request        *)
(* handlers of main.py, the SemanticRetriever (semantic_retriever.py).     *)
(*                                                                         *)
(* Numbers.  Python floats are modelled as exact fixed-point integers      *)
(* (rounding of the binary representation is not modelled):                *)
(*   interestingness  1.0 = 2400 units   (0.1 = 240, 0.9 = 2160)           *)
(*   time             seconds (time.time())                                *)
(*   similarity       1.0 = 100 units                                      *)
(*   final score      1.0 = 864000 units                                   *)
(* With these scales every product of the code is an integer: the decay    *)
(* rate 0.05 per minute is 120 units per minute, 2 units per second, and   *)
(* 1 unit per second at the half rate.  A duration in minutes is kept as   *)
(* its number of seconds.                                                  *)
(*                                                                         *)
(* Specifications.  The variables are shared; each specification runs one  *)
(* part of the program:                                                    *)
(*   StoreSpec      threads calling MemoryStore.add_memory and decay,      *)
(*                  step by step around `with self._lock`                  *)
(*   NarrativeSpec  threads calling add_narrative and pop_narrative_chunk  *)
(*   Spec           the handlers /memories/add and /memories/decay and the *)
(*                  wall clock; a handler without an await runs as one     *)
(*                  step of the event loop                                 *)
(*   RetrieveSpec   the handlers /memories/add and /memories/retrieve      *)
(*                                                                         *)
(* Strings.  A text is a sequence of one-character strings.  The records   *)
(* hold the NAME of a text (a key of Literal); Chars gives its characters. *)
(***************************************************************************)
EXTENDS Integers, Sequences, FiniteSets, TLC

VARIABLES
    memories,             \* MemoryStore.memories: sequence of MemoryRecord
    narrative_log,        \* MemoryStore.narrative_log
    ancient_history_log,  \* MemoryStore.ancient_history_log
    lock,                 \* MemoryStore._lock: the thread holding it, or NoOne
    last_decay,           \* main._last_decay
    clock,                \* the wall clock read by time.time()
    cache,                \* SemanticRetriever._cache: the ids with an embedding
    resp,                 \* the response of the last handler that returned
    pc,                   \* position of each thread calling a store method
    loc,                  \* locals of each thread's call
    born,                 \* history: per memory, what it was when stored
    ndecay,               \* history: number of direct MemoryStore.decay calls
    nnarr,                \* history: number of narrative texts handed in
    hist                  \* history: the tiers' appends and removals, the decay handed out

vars == <<memories, narrative_log, ancient_history_log, lock, last_decay,
          clock, cache, resp, pc, loc, born, ndecay, nnarr, hist>>

-----------------------------------------------------------------------------
(* Bounds of the model *)

MaxMem == 3
MaxHalfMinutes == 5
MaxDecays == 2
MaxNarrative == 4
MaxCount == 2
MaxLimit == 3
MaxEntries == 16

(* Program constants, in the fixed-point units above *)

MEMORY_DECAY_RATE == 120
DECAY_INTERVAL_SECONDS == 60
DecayFloor == 240
HalfRateAbove == 2160
DefaultInterestingness == 1200
MinQueryLen == 5
WordLen == 4
SemWeight == 5184
ImportanceWeight == 108
DayHorizon == 86400
StrongMatch == 80
StrongBoost == 172800
OverlapStep == 43200
OverlapCap == 129600

Unit == 60 * 40
ClockSteps == {30, 60}

Callers == {"t1", "t2"}
NoOne == "NoOne"
None == "None"

Max(a, b) == IF a >= b THEN a ELSE b
Min(a, b) == IF a <= b THEN a ELSE b
Range(s) == {s[i] : i \in DOMAIN s}

-----------------------------------------------------------------------------
(* Texts *)

Literal ==
    "empty"  :> <<>> @@
    "blank"  :> <<" ", " ", " ", " ", " ", " ">> @@
    "hey"    :> <<" ", " ", "h", "e", "y", " ">> @@
    "abc"    :> <<"a", " ", "b", " ", "c">> @@
    "otter"  :> <<" ", "O", "t", "t", "e", "r", " ", "T", "A", "X", "E", "S", " ">> @@
    "four"   :> <<"o", "t", "t", "e", "r", " ", "t", "a", "x", "e", "s", " ", "c", "h", "e", "s", "s", " ", "p", "i", "z", "z", "a">> @@
    "paid"   :> <<"O", "t", "t", "e", "r", " ", "p", "a", "i", "d", " ", "T", "A", "X", "E", "S", " ", "a", "f", "t", "e", "r", " ", "c", "h", "e", "s", "s", " ", "a", "n", "d", " ", "p", "i", "z", "z", "a">> @@
    "chose"  :> <<"c", "h", "a", "t", " ", "c", "h", "o", "s", "e", " ", "p", "i", "z", "z", "a">> @@
    "raw"    :> <<"r", "a", "w", " ", "c", "l", "i", "p">> @@
    "skip"   :> <<"N", "o", "p", "e", ".", " ", "[", "S", "k", "i", "p", "]">> @@
    "note"   :> <<"N", "o", "t", "e", ":", " ", "d", "u", "l", "l", " ", "s", "t", "r", "e", "a", "m">> @@
    "ten"    :> <<"O", "t", "t", "e", "r", " ", "w", "o", "n", "!">> @@
    "win"    :> <<" ", "O", "t", "t", "e", "r", " ", "w", "o", "n", "!", "!", "\n">> @@
    "here"   :> <<"H", "e", "r", "e", " ", "i", "s", ":", " ", "\"", "O", "t", "t", "e", "r", " ", "w", "o", "n", "\"">> @@
    "trail"  :> <<"'", "O", "t", "t", "e", "r", " ", "w", "o", "n", "!", "!", "\n", "N", "o", "t", "e", ":", " ", "x">> @@
    "quoted" :> <<"'", "N", "o", "t", "e", ":", " ", "q", "u", "o", "t", "e", "d", "'">> @@
    "sum"    :> <<"\"", "O", "t", "t", "e", "r", " ", "w", "o", "n", " ", "t", "w", "i", "c", "e", "!", "\"">> @@
    "csum"   :> <<"C", "o", "m", "b", "i", "n", "e", "d", " ", "S", "u", "m", "m", "a", "r", "y", ":", " ", "O", "t", "t", "e", "r", " ", "w", "o", "n", " ", "t", "w", "i", "c", "e">> @@
    "won"    :> <<"O", "t", "t", "e", "r", " ", "w", "o", "n", "!", "!">>

Chars(name) == Literal[name]

Upper == <<"A", "B", "C", "D", "E", "F", "G", "H", "I", "J", "K", "L", "M",
           "N", "O", "P", "Q", "R", "S", "T", "U", "V", "W", "X", "Y", "Z">>
Lower == <<"a", "b", "c", "d", "e", "f", "g", "h", "i", "j", "k", "l", "m",
           "n", "o", "p", "q", "r", "s", "t", "u", "v", "w", "x", "y", "z">>

IsSpace(ch) == ch \in {" ", "\n"}

\* str.lower()
lower(s) ==
    [i \in DOMAIN s |->
        IF \E k \in DOMAIN Upper : Upper[k] = s[i]
        THEN Lower[CHOOSE k \in DOMAIN Upper : Upper[k] = s[i]]
        ELSE s[i]]

\* str.strip()
RECURSIVE lstrip(_)
lstrip(s) == IF s # <<>> /\ IsSpace(s[1]) THEN lstrip(Tail(s)) ELSE s
RECURSIVE rstrip(_)
rstrip(s) ==
    IF s # <<>> /\ IsSpace(s[Len(s)]) THEN rstrip(SubSeq(s, 1, Len(s) - 1)) ELSE s
strip(s) == rstrip(lstrip(s))

\* str.split(): the maximal runs of non-space characters, in order
RECURSIVE SplitFrom(_, _, _, _)
SplitFrom(s, i, word, words) ==
    IF i > Len(s)
    THEN IF word = <<>> THEN words ELSE Append(words, word)
    ELSE IF IsSpace(s[i])
         THEN SplitFrom(s, i + 1, <<>>,
                        IF word = <<>> THEN words ELSE Append(words, word))
         ELSE SplitFrom(s, i + 1, Append(word, s[i]), words)
split(s) == SplitFrom(s, 1, <<>>, <<>>)

Queries == {"empty", "blank", "hey", "abc", "otter", "four"}

-----------------------------------------------------------------------------
(* Requests to /memories/add: the fields of AddMemoryRequest *)

Rec(id, ts, src, text, mt, imp) ==
    [id |-> id, timestamp |-> ts, source |-> src, text |-> text,
     memory_text |-> mt, interestingness |-> imp]

AddRequests ==
    { Rec("m1", 0, "MICROPHONE", "paid", None, DefaultInterestingness),
      Rec("m2", 0, "TWITCH_CHAT", "paid", None, DefaultInterestingness),
      Rec("m3", 0 - 90000, "MICROPHONE", "raw", "chose", 2220),
      Rec("m1", 0, "TWITCH_CHAT", "chose", "empty", 2880),
      Rec("m4", 0, "MICROPHONE", "empty", None, 120),
      Rec("m2", 0 - 43200, "TWITCH_CHAT", "chose", None, HalfRateAbove) }

StoreRecords ==
    {r \in AddRequests : r.id \in {"m1", "m2"} /\ r.text = "chose"}
        \cup {r \in AddRequests : r.id = "m1"}

DecayAmounts == {0, 480, 1440}

NoRecord == Rec("", 0, "", "empty", None, 0)
NoResponse == [status |-> "none"]
NoStart == [taken |-> FALSE, narrative |-> <<>>, ancient |-> <<>>, calls |-> 0]
NoEntry == [n |-> 0, text |-> <<>>]
NoLocals == [record |-> NoRecord, amount |-> 0, count |-> 0, chunk |-> <<>>,
             ret |-> FALSE, fresh |-> FALSE,
             events |-> <<>>, text |-> <<>>, calls |-> 0,
             narrative_added |-> FALSE, ancient_added |-> FALSE,
             response |-> NoResponse, start |-> NoStart,
             snapshot |-> <<>>, taken |-> <<>>,
             query |-> "empty", limit |-> 0, entry |-> NoEntry, now |-> 0]

-----------------------------------------------------------------------------
(* MemoryStore: what each method computes inside `with self._lock` *)

\* a bug: the duplicate test compares whole records instead of ids
AnySameRecord(mems, record) == \E i \in DOMAIN mems : mems[i] = record

\* any(m.id == record.id for m in self.memories)
AnySameId(mems, record) == \E i \in DOMAIN mems : mems[i].id = record.id

\* a bug: the half rate also applies at exactly 0.9
DecayOneAtOrAbove(mem, decay_amount) ==
    LET factor2 == IF mem.interestingness >= HalfRateAbove THEN 1 ELSE 2
    IN  [mem EXCEPT !.interestingness =
            Max(DecayFloor, mem.interestingness - (decay_amount * factor2) \div 2)]

\* a bug: the half rate applies up to 0.9 instead of above it
DecayOneHalfBelow(mem, decay_amount) ==
    LET factor2 == IF mem.interestingness > HalfRateAbove THEN 2 ELSE 1
    IN  [mem EXCEPT !.interestingness =
            Max(DecayFloor, mem.interestingness - (decay_amount * factor2) \div 2)]

\* one iteration of the loop of MemoryStore.decay; decay_amount is even
DecayOne(mem, decay_amount) ==
    LET factor2 == IF mem.interestingness > HalfRateAbove THEN 1 ELSE 2
    IN  [mem EXCEPT !.interestingness =
            Max(DecayFloor, mem.interestingness - (decay_amount * factor2) \div 2)]

\* for mem in self.memories: ...
RECURSIVE DecayLoop(_, _, _)
DecayLoop(mems, decay_amount, i) ==
    IF i > Len(mems) THEN mems
    ELSE DecayLoop([mems EXCEPT ![i] = DecayOne(mems[i], decay_amount)],
                   decay_amount, i + 1)

\* a bug: a tier of exactly count entries is refused
TooFewOrEqual(log, count) == Len(log) <= count

\* len(self.narrative_log) < count
TooFew(log, count) == Len(log) < count

\* a bug: the slice handed out is the newest entries
NewestChunk(log, count) == SubSeq(log, Len(log) - count + 1, Len(log))

\* self.narrative_log[:count]
Chunk(log, count) == SubSeq(log, 1, count)

\* a bug: the newest entries are the ones dropped
AllButNewest(log, count) == SubSeq(log, 1, Len(log) - count)

\* a bug: the chunk is handed out and stays in the log
Kept(log, count) == log

\* self.narrative_log[count:]
Rest(log, count) == SubSeq(log, count + 1, Len(log))

\* a bug: the methods run without the lock
NeverLocked == TRUE

\* the threading.Lock can be taken
Acquirable == lock = NoOne

\* history kept for a stored memory
Birth(record) == [interestingness |-> record.interestingness,
                  last_decay |-> last_decay, ticks |-> 0]

-----------------------------------------------------------------------------
(* SemanticRetriever (semantic_retriever.py) and the scoring of main.py *)

\* text.strip(), text.lower().split(), computed once per text of the model
Stripped == [name \in DOMAIN Literal |-> strip(Chars(name))]
LowerWords == [name \in DOMAIN Literal |-> Range(split(lower(Chars(name))))]

\* mem.memory_text or mem.text: the name of the text that is displayed
Content(mem) ==
    IF mem.memory_text # None /\ Chars(mem.memory_text) # <<>>
    THEN mem.memory_text ELSE mem.text

\* util.cos_sim of the embeddings of a query and of a content, as the
\* Embedder gives it for the texts of this model (1.0 = 100)
Similarity(query, content) ==
    CASE query = "otter" /\ content = "paid"  -> 85
      [] query = "otter" /\ content = "chose" -> 80
      [] query = "four"  /\ content = "paid"  -> 90
      [] query = "four"  /\ content = "chose" -> 40
      [] query = "abc"   /\ content = "paid"  -> 0 - 20
      [] query = "abc"   /\ content = "chose" -> 10
      [] OTHER -> 0

Ids(mems) == {mems[i].id : i \in DOMAIN mems}
HasContent(mem) == Chars(Content(mem)) # <<>>

\* SemanticRetriever.rank: the (score, record) pairs of the memories with a
\* content, in the order of `memories`; the cache afterwards; the number of
\* model.encode calls made
rank(query, mems) ==
    IF mems = <<>> \/ Stripped[query] = <<>>
    THEN [ranked |-> <<>>, cache |-> cache, encodes |-> 0]
    ELSE LET pruned == cache \cap Ids(mems)
             valid == SelectSeq(mems, HasContent)
         IN  IF valid = <<>>
             THEN [ranked |-> <<>>, cache |-> pruned, encodes |-> 0]
             ELSE [ranked |-> [i \in DOMAIN valid |->
                        <<Similarity(query, Content(valid[i])), valid[i]>>],
                   cache |-> pruned \cup Ids(valid),
                   encodes |-> Cardinality(Ids(valid) \ pruned) + 1]

\* not req.query or len(req.query.strip()) < 5
ShortQuery(query) ==
    Chars(query) = <<>> \/ Len(Stripped[query]) < MinQueryLen

\* {w for w in text.lower().split() if len(w) > 4}
LongWords(text) == {w \in LowerWords[text] : Len(w) > WordLen}

\* a bug: the boost is given from 0.8 on
StrongFromThreshold(sem_score) == sem_score >= StrongMatch

\* if sem_score > 0.8
Strong(sem_score) == sem_score > StrongMatch

\* the body of the scoring loop: `final` for one (sem_score, mem)
Final(sem_score, mem, now, query) ==
    LET age == now - mem.timestamp
        recency == Max(0, DayHorizon - age)
        overlap == LongWords(query) \cap LongWords(Content(mem))
    IN  sem_score * SemWeight + mem.interestingness * ImportanceWeight
          + recency
          + (IF Strong(sem_score) THEN StrongBoost ELSE 0)
          + (IF overlap # {}
             THEN Min(OverlapCap, Cardinality(overlap) * OverlapStep) ELSE 0)

\* a bug: an unstable sort that puts a later equal key first
InsertBeforeEqual(sorted, p) ==
    LET n == Cardinality({i \in DOMAIN sorted : sorted[i][1] > p[1]})
    IN  SubSeq(sorted, 1, n) \o <<p>> \o SubSeq(sorted, n + 1, Len(sorted))

\* one step of a stable descending sort: p goes behind every key >= its own
InsertDesc(sorted, p) ==
    LET n == Cardinality({i \in DOMAIN sorted : sorted[i][1] >= p[1]})
    IN  SubSeq(sorted, 1, n) \o <<p>> \o SubSeq(sorted, n + 1, Len(sorted))

\* sorted(..., reverse=True) and list.sort(reverse=True) on (key, record)
\* pairs: stable, equal keys keep their order
RECURSIVE SortFrom(_, _, _)
SortFrom(pairs, i, sorted) ==
    IF i > Len(pairs) THEN sorted
    ELSE SortFrom(pairs, i + 1, InsertDesc(sorted, pairs[i]))
SortDesc(pairs) == SortFrom(pairs, 1, <<>>)

\* [m for _, m in pairs[:limit]], limit >= 0
Top(pairs, limit) == [i \in 1..Min(limit, Len(pairs)) |-> pairs[i][2]]

\* a bug: a tick exactly one interval after the last one is skipped
TooSoonAtInterval(seconds) == seconds <= DECAY_INTERVAL_SECONDS

\* minutes < DECAY_INTERVAL_SECONDS / 60.0, minutes given in seconds
TooSoon(seconds) == seconds < DECAY_INTERVAL_SECONDS

\* a bug: every tick decays by one interval's worth
DecayAmountOfInterval(seconds) ==
    (DECAY_INTERVAL_SECONDS * MEMORY_DECAY_RATE) \div 60

\* decay_amount = minutes * MEMORY_DECAY_RATE, minutes given in seconds
DecayAmount(seconds) == (seconds * MEMORY_DECAY_RATE) \div 60

-----------------------------------------------------------------------------
(* Compressor (compressor.py): what is done with the Summarizer's response *)

ANCIENT_COMPRESSION_THRESHOLD == 10
ANCIENT_COMPRESSION_CHUNK == 5
NarrativeFloor == 10
AncientFloor == 15
LabelLen == 17
TopK == 5
TextCut == 80

\* str.upper()
upper(s) ==
    [i \in DOMAIN s |->
        IF \E k \in DOMAIN Lower : Lower[k] = s[i]
        THEN Upper[CHOOSE k \in DOMAIN Lower : Lower[k] = s[i]]
        ELSE s[i]]

\* s.startswith(p)
startswith(s, p) == Len(s) >= Len(p) /\ SubSeq(s, 1, Len(p)) = p

\* the positions at which p occurs in s; p in s
Occurrences(s, p) ==
    {i \in 1..(Len(s) - Len(p) + 1) : SubSeq(s, i, i + Len(p) - 1) = p}
Contains(s, p) == Occurrences(s, p) # {}

\* s.split(p)[0]
BeforeFirst(s, p) ==
    IF Contains(s, p)
    THEN SubSeq(s, 1, (CHOOSE i \in Occurrences(s, p) :
                          \A j \in Occurrences(s, p) : i <= j) - 1)
    ELSE s

\* s.lstrip(chars), s.strip(chars)
RECURSIVE lstripOf(_, _)
lstripOf(s, chars) ==
    IF s # <<>> /\ s[1] \in chars THEN lstripOf(Tail(s), chars) ELSE s
RECURSIVE rstripOf(_, _)
rstripOf(s, chars) ==
    IF s # <<>> /\ s[Len(s)] \in chars
    THEN rstripOf(SubSeq(s, 1, Len(s) - 1), chars) ELSE s
stripOf(s, chars) == rstripOf(lstripOf(s, chars), chars)

SkipMarker == <<"[", "S", "K", "I", "P", "]">>
NoteBreak == <<"\n", "N", "o", "t", "e", ":">>
NotePrefix == <<"n", "o", "t", "e", ":">>
SummaryLabel == <<"c", "o", "m", "b", "i", "n", "e", "d", " ", "s", "u", "m", "m", "a", "r", "y", ":">>
Quotes == {"\"", "'"}
Preambles == << <<"h", "e", "r", "e", " ", "i", "s">>,
               <<"h", "e", "r", "e", "'", "s">>,
               <<"t", "h", "e", " ", "m", "e", "m", "o", "r", "a", "b", "l", "e", " ", "m", "o", "m", "e", "n", "t", " ", "i", "s">>,
               <<"m", "e", "m", "o", "r", "a", "b", "l", "e", " ", "m", "o", "m", "e", "n", "t", ":">>,
               <<"o", "n", "e", " ", "m", "e", "m", "o", "r", "a", "b", "l", "e", " ", "m", "o", "m", "e", "n", "t">> >>

\* for phrase in [...]: if nl.startswith(phrase): ...; break
StripPreamble(narrative) ==
    LET nl == lower(narrative)
        hits == {k \in DOMAIN Preambles : startswith(nl, Preambles[k])}
    IN  IF hits = {} THEN narrative
        ELSE LET k == CHOOSE h \in hits : \A g \in hits : h <= g
             IN  strip(lstripOf(SubSeq(narrative, Len(Preambles[k]) + 1,
                                       Len(narrative)), {":"}))

\* a bug: a narrative of exactly 10 characters is kept
LongFrom(narrative, floor) == Len(narrative) >= floor

\* len(narrative) > 10, len(summary) > 15
LongEnough(narrative, floor) == Len(narrative) > floor

\* compress_events, from the response to the decision: whether a narrative
\* is added, and its text
Narrated(response) ==
    LET narrative == strip(response)
        rejected == [add |-> FALSE, text |-> <<>>]
    IN  IF Contains(upper(narrative), SkipMarker) \/ narrative = <<>>
        THEN rejected
        ELSE LET unquoted == stripOf(StripPreamble(narrative), Quotes)
                 noted == IF Contains(unquoted, NoteBreak)
                          THEN strip(BeforeFirst(unquoted, NoteBreak))
                          ELSE unquoted
             IN  IF startswith(lower(noted), NotePrefix) THEN rejected
                 ELSE IF LongEnough(noted, NarrativeFloor)
                      THEN [add |-> TRUE, text |-> noted]
                      ELSE rejected

\* compress_ancient: the summary once stripped, unlabelled and unquoted
Cleaned(response) ==
    LET summary == strip(response)
        unlabelled == IF startswith(lower(summary), SummaryLabel)
                      THEN strip(SubSeq(summary, LabelLen + 1, Len(summary)))
                      ELSE summary
    IN  stripOf(unlabelled, Quotes)

\* a bug: the summary is appended whatever its length
AppendedWhateverLength(response) ==
    [add |-> TRUE, text |-> Cleaned(response)]

\* compress_ancient, from the response to the decision
Summarised(response) ==
    LET summary == strip(response)
        unlabelled == IF startswith(lower(summary), SummaryLabel)
                      THEN strip(SubSeq(summary, LabelLen + 1, Len(summary)))
                      ELSE summary
        unquoted == stripOf(unlabelled, Quotes)
    IN  IF LongEnough(unquoted, AncientFloor)
        THEN [add |-> TRUE, text |-> unquoted]
        ELSE [add |-> FALSE, text |-> <<>>]

\* the responses of the Summarizer in this model
EventResponses == {"blank", "skip", "note", "ten", "win", "here", "trail",
                   "quoted"}
AncientResponses == {"sum", "csum"}
NarrativeOf == [name \in EventResponses |-> Narrated(Chars(name))]
SummaryOf == [name \in AncientResponses |-> Summarised(Chars(name))]
CleanedOf == [name \in AncientResponses |-> Cleaned(Chars(name))]

-----------------------------------------------------------------------------
Init ==
    /\ memories = <<>>
    /\ narrative_log = <<>>
    /\ ancient_history_log = <<>>
    /\ lock = NoOne
    /\ last_decay = 0
    /\ clock = 0
    /\ cache = {}
    /\ resp = [op |-> "none"]
    /\ pc = [c \in Callers |-> "idle"]
    /\ loc = [c \in Callers |-> NoLocals]
    /\ born = <<>>
    /\ ndecay = 0
    /\ nnarr = 0
    /\ hist = [narrative |-> <<>>, ancient |-> <<>>, chunks |-> <<>>,
               decayed |-> 0]

-----------------------------------------------------------------------------
(* Threads calling the methods of MemoryStore (store.py) *)

Service == <<last_decay, clock, cache, resp>>
Narrative == <<narrative_log, ancient_history_log, nnarr, hist>>
Memory == <<memories, born, ndecay>>

\* a thread calls store.add_memory(record)
add_memory_call(c, record) ==
    /\ pc[c] = "idle"
    /\ Len(memories) < MaxMem \/ AnySameId(memories, record)
    /\ pc' = [pc EXCEPT ![c] = "add_memory"]
    /\ loc' = [loc EXCEPT ![c] = [NoLocals EXCEPT !.record = record,
                                     !.fresh = ~AnySameId(memories, record)]]
    /\ UNCHANGED <<memories, lock, born, ndecay, Service, Narrative>>

\* with self._lock:
add_memory_lock(c) ==
    /\ pc[c] = "add_memory"
    /\ Acquirable
    /\ lock' = c
    /\ pc' = [pc EXCEPT ![c] = "add_check"]
    /\ UNCHANGED <<memories, loc, born, ndecay, Service, Narrative>>

\* if any(...): return False
add_memory_check(c) ==
    /\ pc[c] = "add_check"
    /\ IF AnySameId(memories, loc[c].record)
       THEN /\ pc' = [pc EXCEPT ![c] = "returned"]
            /\ loc' = [loc EXCEPT ![c].ret = FALSE]
            /\ lock' = NoOne
       ELSE /\ pc' = [pc EXCEPT ![c] = "add_append"]
            /\ UNCHANGED <<loc, lock>>
    /\ UNCHANGED <<memories, born, ndecay, Service, Narrative>>

\* self.memories.append(record); return True
add_memory_append(c) ==
    /\ pc[c] = "add_append"
    /\ memories' = Append(memories, loc[c].record)
    /\ born' = Append(born, Birth(loc[c].record))
    /\ pc' = [pc EXCEPT ![c] = "returned"]
    /\ loc' = [loc EXCEPT ![c].ret = TRUE]
    /\ lock' = NoOne
    /\ UNCHANGED <<ndecay, Service, Narrative>>

\* a thread calls store.decay(decay_amount)
decay_call(c, decay_amount) ==
    /\ pc[c] = "idle"
    /\ ndecay < MaxDecays
    /\ ndecay' = ndecay + 1
    /\ pc' = [pc EXCEPT ![c] = "decay"]
    /\ loc' = [loc EXCEPT ![c] = [NoLocals EXCEPT !.amount = decay_amount]]
    /\ UNCHANGED <<memories, lock, born, Service, Narrative>>

\* with self._lock:
decay_lock(c) ==
    /\ pc[c] = "decay"
    /\ Acquirable
    /\ lock' = c
    /\ pc' = [pc EXCEPT ![c] = "decay_loop"]
    /\ UNCHANGED <<memories, loc, born, ndecay, Service, Narrative>>

\* the for loop, run to its end with the lock held
decay_loop(c) ==
    /\ pc[c] = "decay_loop"
    /\ memories' = DecayLoop(memories, loc[c].amount, 1)
    /\ pc' = [pc EXCEPT ![c] = "returned"]
    /\ lock' = NoOne
    /\ UNCHANGED <<loc, born, ndecay, Service, Narrative>>

\* the caller takes the result; the thread is free for its next call
return(c) ==
    /\ pc[c] = "returned"
    /\ pc' = [pc EXCEPT ![c] = "idle"]
    /\ loc' = [loc EXCEPT ![c] = NoLocals]
    /\ UNCHANGED <<memories, lock, born, ndecay, Service, Narrative>>

\* a thread calls store.add_narrative(text) with a text not handed in before
add_narrative_call(c) ==
    /\ pc[c] = "idle"
    /\ nnarr < MaxNarrative
    /\ nnarr' = nnarr + 1
    /\ pc' = [pc EXCEPT ![c] = "add_narrative"]
    /\ loc' = [loc EXCEPT ![c] = [NoLocals EXCEPT !.chunk = <<nnarr + 1>>]]
    /\ UNCHANGED <<narrative_log, ancient_history_log, hist, lock, Memory,
                   Service>>

\* with self._lock: self.narrative_log.append(text)
add_narrative_locked(c) ==
    /\ pc[c] = "add_narrative"
    /\ Acquirable
    /\ narrative_log' = narrative_log \o loc[c].chunk
    /\ hist' = [hist EXCEPT !.narrative = @ \o loc[c].chunk]
    /\ pc' = [pc EXCEPT ![c] = "returned"]
    /\ loc' = [loc EXCEPT ![c] = NoLocals]
    /\ UNCHANGED <<ancient_history_log, nnarr, lock, Memory, Service>>

\* a thread calls store.pop_narrative_chunk(count)
pop_narrative_chunk_call(c, count) ==
    /\ pc[c] = "idle"
    /\ pc' = [pc EXCEPT ![c] = "pop"]
    /\ loc' = [loc EXCEPT ![c] = [NoLocals EXCEPT !.count = count]]
    /\ UNCHANGED <<lock, Memory, Service, Narrative>>

\* with self._lock:
pop_narrative_chunk_lock(c) ==
    /\ pc[c] = "pop"
    /\ Acquirable
    /\ lock' = c
    /\ pc' = [pc EXCEPT ![c] = "pop_check"]
    /\ UNCHANGED <<loc, Memory, Service, Narrative>>

\* if len(self.narrative_log) < count: return []
pop_narrative_chunk_check(c) ==
    /\ pc[c] = "pop_check"
    /\ IF TooFew(narrative_log, loc[c].count)
       THEN /\ pc' = [pc EXCEPT ![c] = "returned"]
            /\ loc' = [loc EXCEPT ![c].chunk = <<>>]
            /\ lock' = NoOne
       ELSE /\ pc' = [pc EXCEPT ![c] = "pop_slice"]
            /\ UNCHANGED <<loc, lock>>
    /\ UNCHANGED <<Memory, Service, Narrative>>

\* chunk = self.narrative_log[:count]
pop_narrative_chunk_slice(c) ==
    /\ pc[c] = "pop_slice"
    /\ loc' = [loc EXCEPT ![c].chunk = Chunk(narrative_log, loc[c].count)]
    /\ pc' = [pc EXCEPT ![c] = "pop_assign"]
    /\ UNCHANGED <<lock, Memory, Service, Narrative>>

\* self.narrative_log = self.narrative_log[count:]; return chunk
pop_narrative_chunk_assign(c) ==
    /\ pc[c] = "pop_assign"
    /\ narrative_log' = Rest(narrative_log, loc[c].count)
    /\ hist' = [hist EXCEPT !.chunks = Append(@, loc[c].chunk)]
    /\ pc' = [pc EXCEPT ![c] = "returned"]
    /\ lock' = NoOne
    /\ UNCHANGED <<loc, ancient_history_log, nnarr, Memory, Service>>

\* a thread calls store.get_all()
get_all_call(c) ==
    /\ pc[c] = "idle"
    /\ pc' = [pc EXCEPT ![c] = "get_all"]
    /\ loc' = [loc EXCEPT ![c] = NoLocals]
    /\ UNCHANGED <<memories, lock, born, ndecay, Service, Narrative>>

\* with self._lock:
get_all_lock(c) ==
    /\ pc[c] = "get_all"
    /\ Acquirable
    /\ lock' = c
    /\ pc' = [pc EXCEPT ![c] = "get_all_locked"]
    /\ UNCHANGED <<memories, loc, born, ndecay, Service, Narrative>>

\* return list(self.memories): a new list of the same record objects.  A
\* record object is named by its place in self.memories, which never moves;
\* `taken` is history, the values of the records as the list was made
get_all(c) ==
    /\ pc[c] = "get_all_locked"
    /\ loc' = [loc EXCEPT ![c].snapshot = [i \in DOMAIN memories |-> i],
                          ![c].taken = memories,
                          ![c].ret = TRUE]
    /\ pc' = [pc EXCEPT ![c] = "returned"]
    /\ lock' = NoOne
    /\ UNCHANGED <<memories, born, ndecay, Service, Narrative>>

\* what the holder of a snapshot reads in it: the records behind the list
Deref(snapshot) == [k \in DOMAIN snapshot |-> memories[snapshot[k]]]

StoreNext ==
    \E c \in Callers :
        \/ \E record \in StoreRecords : add_memory_call(c, record)
        \/ add_memory_lock(c)
        \/ add_memory_check(c)
        \/ add_memory_append(c)
        \/ \E decay_amount \in DecayAmounts : decay_call(c, decay_amount)
        \/ decay_lock(c)
        \/ decay_loop(c)
        \/ return(c)

StoreSpec == Init /\ [][StoreNext]_vars

\* threads calling add_memory, decay and get_all
SnapshotNext ==
    \/ StoreNext
    \/ \E c \in Callers :
          \/ get_all_call(c)
          \/ get_all_lock(c)
          \/ get_all(c)

SnapshotSpec == Init /\ [][SnapshotNext]_vars

NarrativeNext ==
    \E c \in Callers :
        \/ add_narrative_call(c)
        \/ add_narrative_locked(c)
        \/ \E count \in 1..MaxCount : pop_narrative_chunk_call(c, count)
        \/ pop_narrative_chunk_lock(c)
        \/ pop_narrative_chunk_check(c)
        \/ pop_narrative_chunk_slice(c)
        \/ pop_narrative_chunk_assign(c)
        \/ return(c)

NarrativeSpec == Init /\ [][NarrativeNext]_vars

-----------------------------------------------------------------------------
(* The request handlers of main.py.  Each is an `async def` without an     *)
(* await: the event loop runs it from its first line to its return.        *)

Threads == <<pc, loc, ndecay>>

\* POST /memories/add
add_memory(req) ==
    /\ Acquirable
    /\ Len(memories) < MaxMem \/ AnySameId(memories, req)
    /\ IF AnySameId(memories, req)
       THEN /\ resp' = [op |-> "add", status |-> "ok", added |-> FALSE]
            /\ UNCHANGED <<memories, born>>
       ELSE /\ memories' = Append(memories, req)
            /\ born' = Append(born, Birth(req))
            /\ resp' = [op |-> "add", status |-> "ok", added |-> TRUE]
    /\ UNCHANGED <<lock, last_decay, clock, cache, Threads, Narrative>>

\* POST /memories/retrieve
retrieve_memories(query, limit) ==
    /\ Acquirable
    /\ IF ShortQuery(query)
       THEN LET keyed == [i \in DOMAIN memories |->
                            <<memories[i].interestingness, memories[i]>>]
            IN  /\ resp' = [op |-> "retrieve", query |-> query, limit |-> limit,
                            memories |-> Top(SortDesc(keyed), limit),
                            encodes |-> 0]
                /\ UNCHANGED cache
       ELSE LET r == rank(query, memories)
                now == clock
                scored == [i \in DOMAIN r.ranked |->
                              <<Final(r.ranked[i][1], r.ranked[i][2], now, query),
                                r.ranked[i][2]>>]
            IN  /\ resp' = [op |-> "retrieve", query |-> query, limit |-> limit,
                            memories |-> Top(SortDesc(scored), limit),
                            encodes |-> r.encodes]
                /\ cache' = r.cache
    /\ UNCHANGED <<memories, born, lock, last_decay, clock, Threads, Narrative>>

\* the memories rank reaches before one of its model.encode calls raises:
\* the j first uncached memories with a content got their embedding cached
Encoded(mems, j) ==
    LET pruned == cache \cap Ids(mems)
        fresh == SelectSeq(mems, LAMBDA m : HasContent(m) /\ m.id \notin pruned)
    IN  pruned \cup {fresh[i].id : i \in 1..Min(j, Len(fresh))}

\* POST /memories/retrieve when SentenceTransformer.encode raises inside
\* retriever.rank: neither rank nor the handler catches it, the framework
\* answers 500 Internal Server Error
retrieve_memories_raises(query, limit, j) ==
    /\ Acquirable
    /\ ~ShortQuery(query)
    /\ rank(query, memories).encodes > 0
    /\ j < rank(query, memories).encodes
    /\ cache' = Encoded(memories, j)
    /\ resp' = [op |-> "retrieve", query |-> query, limit |-> limit,
                status |-> 500]
    /\ UNCHANGED <<memories, born, lock, last_decay, clock, Threads, Narrative>>

\* POST /memories/decay
decay_memories ==
    /\ Acquirable
    /\ LET now == clock
           minutes == now - last_decay
       IN  IF TooSoon(minutes)
           THEN /\ resp' = [op |-> "decay", status |-> "skipped",
                            decay_amount |-> 0, minutes |-> minutes]
                /\ UNCHANGED <<memories, born, last_decay, hist>>
           ELSE /\ memories' = DecayLoop(memories, DecayAmount(minutes), 1)
                /\ last_decay' = now
                /\ born' = [i \in DOMAIN born |->
                               [born[i] EXCEPT !.ticks = @ + 1]]
                /\ hist' = [hist EXCEPT !.decayed = @ + DecayAmount(minutes)]
                /\ resp' = [op |-> "decay", status |-> "ok",
                            decay_amount |-> DecayAmount(minutes),
                            minutes |-> minutes]
    /\ UNCHANGED <<lock, clock, cache, Threads, narrative_log,
                   ancient_history_log, nnarr>>

\* time passes
tick(seconds) ==
    /\ clock + seconds <= 30 * MaxHalfMinutes
    /\ clock' = clock + seconds
    /\ UNCHANGED <<memories, born, lock, last_decay, cache, resp, Threads,
                   Narrative>>

\* adding, decaying and the passing of time
Next ==
    \/ \E req \in AddRequests : add_memory(req)
    \/ decay_memories
    \/ \E seconds \in ClockSteps : tick(seconds)

Spec == Init /\ [][Next]_vars

\* adding and retrieving at one instant
RetrieveNext ==
    \/ \E req \in AddRequests : add_memory(req)
    \/ \E query \in Queries, limit \in 0..MaxLimit :
          retrieve_memories(query, limit)

RetrieveSpec == Init /\ [][RetrieveNext]_vars

\* adding and retrieving with an Embedder that may raise
EmbedderNext ==
    \/ \E req \in AddRequests : add_memory(req)
    \/ \E query \in Queries, limit \in 0..MaxLimit :
          retrieve_memories(query, limit)
    \/ \E query \in Queries, limit \in 0..MaxLimit, j \in 0..MaxMem :
          retrieve_memories_raises(query, limit, j)

EmbedderSpec == Init /\ [][EmbedderNext]_vars

-----------------------------------------------------------------------------
(* The Compressor (compressor.py) under POST /compress (main.py).  A       *)
(* request is a coroutine of the one event loop: it runs from one await to *)
(* the next without another coroutine running in between, and it is off    *)
(* the loop while it awaits the Summarizer.  Every call of a MemoryStore   *)
(* method is two steps, taking the lock, and the body with the release.    *)
(* An entry of a tier is its text and n, the rank of its append among the  *)
(* appends to the tier: n is history, kept to tell equal texts apart; an   *)
(* ancient entry also keeps the chunk it was made of.                      *)

Outside == <<Memory, Service, nnarr>>

\* the positions at which a coroutine is not running on the event loop
OffLoop == {"idle", "compress", "events_generate", "ancient_generate",
            "returned", "add_memory", "retrieve"}

\* a bug: coroutines pre-empt one another like threads
Preemptive(c) == TRUE

\* the event loop runs c when no other coroutine is in the middle of a run
Runnable(c) == \A d \in Callers \ {c} : pc[d] \in OffLoop

EventBatches == {<<>>, <<[source |-> "MICROPHONE", text |-> "paid"]>>}

NarrativeEntry(text) == [n |-> Len(hist.narrative) + 1, text |-> text]
AncientEntry(text, chunk) ==
    [n |-> Len(hist.ancient) + 1, text |-> text, of |-> chunk]

\* a bug: the roll-up starts as soon as one chunk is there
BelowChunk(length) == length < ANCIENT_COMPRESSION_CHUNK

\* a bug: the roll-up waits for one entry more than the threshold
AtOrBelowThreshold(length) == length <= ANCIENT_COMPRESSION_THRESHOLD

\* store.narrative_len() < ANCIENT_COMPRESSION_THRESHOLD
BelowThreshold(length) == length < ANCIENT_COMPRESSION_THRESHOLD

\* a POST /compress request arrives
compress_call(c, events) ==
    /\ pc[c] = "idle"
    /\ pc' = [pc EXCEPT ![c] = "compress"]
    /\ loc' = [loc EXCEPT ![c] = [NoLocals EXCEPT !.events = events]]
    /\ UNCHANGED <<lock, Narrative, Outside>>

\* compress_events up to `await client.generate(...)`
compress_events(c) ==
    /\ pc[c] = "compress"
    /\ Runnable(c)
    /\ IF loc[c].events = <<>>
       THEN /\ pc' = [pc EXCEPT ![c] = "ancient_len"]
            /\ loc' = [loc EXCEPT ![c].narrative_added = FALSE]
       ELSE /\ pc' = [pc EXCEPT ![c] = "events_generate"]
            /\ loc' = [loc EXCEPT ![c].calls = @ + 1]
    /\ UNCHANGED <<lock, Narrative, Outside>>

\* the Summarizer answers; compress_events from the response to its decision
events_generated(c, response) ==
    /\ pc[c] = "events_generate"
    /\ Runnable(c)
    /\ IF NarrativeOf[response].add
       THEN /\ Len(hist.narrative) < MaxEntries
            /\ pc' = [pc EXCEPT ![c] = "events_append"]
            /\ loc' = [loc EXCEPT ![c].text = NarrativeOf[response].text]
       ELSE /\ pc' = [pc EXCEPT ![c] = "ancient_len"]
            /\ loc' = [loc EXCEPT ![c].narrative_added = FALSE]
    /\ UNCHANGED <<lock, Narrative, Outside>>

\* the Summarizer call raises: except Exception, return False
events_generate_raises(c) ==
    /\ pc[c] = "events_generate"
    /\ Runnable(c)
    /\ pc' = [pc EXCEPT ![c] = "ancient_len"]
    /\ loc' = [loc EXCEPT ![c].narrative_added = FALSE]
    /\ UNCHANGED <<lock, Narrative, Outside>>

\* store.add_narrative(narrative): with self._lock
events_append_lock(c) ==
    /\ pc[c] = "events_append"
    /\ Acquirable
    /\ lock' = c
    /\ pc' = [pc EXCEPT ![c] = "events_append_locked"]
    /\ UNCHANGED <<loc, Narrative, Outside>>

\* self.narrative_log.append(text); return True (entry: history, the entry
\* this request appended)
events_append(c) ==
    /\ pc[c] = "events_append_locked"
    /\ narrative_log' = Append(narrative_log, NarrativeEntry(loc[c].text))
    /\ hist' = [hist EXCEPT !.narrative = Append(@, NarrativeEntry(loc[c].text))]
    /\ lock' = NoOne
    /\ pc' = [pc EXCEPT ![c] = "ancient_len"]
    /\ loc' = [loc EXCEPT ![c].narrative_added = TRUE,
                          ![c].entry = NarrativeEntry(loc[c].text)]
    /\ UNCHANGED <<ancient_history_log, Outside>>

\* history: the tiers and the Summarizer calls made when compress_ancient
\* begins
Start(c) == [taken |-> TRUE, narrative |-> narrative_log,
             ancient |-> ancient_history_log, calls |-> loc[c].calls]

\* compress_ancient: store.narrative_len(): with self._lock
ancient_len_lock(c) ==
    /\ pc[c] = "ancient_len"
    /\ Acquirable
    /\ lock' = c
    /\ pc' = [pc EXCEPT ![c] = "ancient_len_locked"]
    /\ loc' = [loc EXCEPT ![c].start = Start(c)]
    /\ UNCHANGED <<Narrative, Outside>>

\* if store.narrative_len() < ANCIENT_COMPRESSION_THRESHOLD: return False
ancient_len(c) ==
    /\ pc[c] = "ancient_len_locked"
    /\ lock' = NoOne
    /\ IF BelowThreshold(Len(narrative_log))
       THEN /\ pc' = [pc EXCEPT ![c] = "respond"]
            /\ loc' = [loc EXCEPT ![c].ancient_added = FALSE]
       ELSE /\ pc' = [pc EXCEPT ![c] = "ancient_pop"]
            /\ UNCHANGED loc
    /\ UNCHANGED <<Narrative, Outside>>

\* store.pop_narrative_chunk(ANCIENT_COMPRESSION_CHUNK): with self._lock
ancient_pop_lock(c) ==
    /\ pc[c] = "ancient_pop"
    /\ Acquirable
    /\ lock' = c
    /\ pc' = [pc EXCEPT ![c] = "ancient_pop_locked"]
    /\ UNCHANGED <<loc, Narrative, Outside>>

\* the body of pop_narrative_chunk; `if not chunk: return False`; up to
\* `await client.generate(...)`
ancient_pop(c) ==
    /\ pc[c] = "ancient_pop_locked"
    /\ lock' = NoOne
    /\ IF TooFew(narrative_log, ANCIENT_COMPRESSION_CHUNK)
       THEN /\ pc' = [pc EXCEPT ![c] = "respond"]
            /\ loc' = [loc EXCEPT ![c].chunk = <<>>,
                                  ![c].ancient_added = FALSE]
            /\ UNCHANGED <<narrative_log, hist>>
       ELSE /\ narrative_log' = Rest(narrative_log, ANCIENT_COMPRESSION_CHUNK)
            /\ hist' = [hist EXCEPT !.chunks =
                           Append(@, Chunk(narrative_log,
                                           ANCIENT_COMPRESSION_CHUNK))]
            /\ pc' = [pc EXCEPT ![c] = "ancient_generate"]
            /\ loc' = [loc EXCEPT
                         ![c].chunk = Chunk(narrative_log,
                                            ANCIENT_COMPRESSION_CHUNK),
                         ![c].calls = @ + 1]
    /\ UNCHANGED <<ancient_history_log, Outside>>

\* the Summarizer answers; compress_ancient from the response to its decision
ancient_generated(c, response) ==
    /\ pc[c] = "ancient_generate"
    /\ Runnable(c)
    /\ IF SummaryOf[response].add
       THEN /\ pc' = [pc EXCEPT ![c] = "ancient_append"]
            /\ loc' = [loc EXCEPT ![c].text = SummaryOf[response].text]
       ELSE /\ pc' = [pc EXCEPT ![c] = "respond"]
            /\ loc' = [loc EXCEPT ![c].ancient_added = FALSE]
    /\ UNCHANGED <<lock, Narrative, Outside>>

\* the Summarizer call raises: except Exception, return False
ancient_generate_raises(c) ==
    /\ pc[c] = "ancient_generate"
    /\ Runnable(c)
    /\ pc' = [pc EXCEPT ![c] = "respond"]
    /\ loc' = [loc EXCEPT ![c].ancient_added = FALSE]
    /\ UNCHANGED <<lock, Narrative, Outside>>

\* store.add_ancient(summary): with self._lock
ancient_append_lock(c) ==
    /\ pc[c] = "ancient_append"
    /\ Acquirable
    /\ lock' = c
    /\ pc' = [pc EXCEPT ![c] = "ancient_append_locked"]
    /\ UNCHANGED <<loc, Narrative, Outside>>

\* self.ancient_history_log.append(text); return True
ancient_append(c) ==
    /\ pc[c] = "ancient_append_locked"
    /\ ancient_history_log' =
          Append(ancient_history_log, AncientEntry(loc[c].text, loc[c].chunk))
    /\ hist' = [hist EXCEPT !.ancient =
                   Append(@, AncientEntry(loc[c].text, loc[c].chunk))]
    /\ lock' = NoOne
    /\ pc' = [pc EXCEPT ![c] = "respond"]
    /\ loc' = [loc EXCEPT ![c].ancient_added = TRUE]
    /\ UNCHANGED <<narrative_log, Outside>>

\* the return of `compress`: the flags, store.get_narrative() and
\* store.get_ancient()
compress_respond(c) ==
    /\ pc[c] = "respond"
    /\ Acquirable
    /\ pc' = [pc EXCEPT ![c] = "returned"]
    /\ loc' = [loc EXCEPT ![c].response =
                  [status |-> "ok",
                   narrative_added |-> loc[c].narrative_added,
                   ancient_added |-> loc[c].ancient_added,
                   narrative |-> narrative_log,
                   ancient |-> ancient_history_log]]
    /\ UNCHANGED <<lock, Narrative, Outside>>

\* POST /narrative/add, from its arrival to its return
add_narrative(c, text) ==
    /\ pc[c] = "idle"
    /\ Runnable(c)
    /\ Acquirable
    /\ Len(hist.narrative) < MaxEntries
    /\ narrative_log' = Append(narrative_log, NarrativeEntry(Chars(text)))
    /\ hist' = [hist EXCEPT !.narrative = Append(@, NarrativeEntry(Chars(text)))]
    /\ pc' = [pc EXCEPT ![c] = "returned"]
    /\ loc' = [loc EXCEPT ![c] = [NoLocals EXCEPT !.response =
                  [status |-> "ok", narrative_count |-> Len(narrative_log) + 1]]]
    /\ UNCHANGED <<ancient_history_log, lock, Outside>>

\* the steps of one POST /compress request
compress(c) ==
    \/ \E events \in EventBatches : compress_call(c, events)
    \/ compress_events(c)
    \/ \E response \in EventResponses : events_generated(c, response)
    \/ events_generate_raises(c)
    \/ events_append_lock(c)
    \/ events_append(c)
    \/ ancient_len_lock(c)
    \/ ancient_len(c)
    \/ ancient_pop_lock(c)
    \/ ancient_pop(c)
    \/ \E response \in AncientResponses : ancient_generated(c, response)
    \/ ancient_generate_raises(c)
    \/ ancient_append_lock(c)
    \/ ancient_append(c)
    \/ compress_respond(c)

\* requests to /compress and /narrative/add on the event loop
PipeNext ==
    \E c \in Callers :
        \/ compress(c)
        \/ add_narrative(c, "won")
        \/ return(c)

PipeSpec == Init /\ [][PipeNext]_vars

\* the same requests, handled one at a time
SoloNext ==
    \E c \in {"t1"} :
        \/ compress(c)
        \/ add_narrative(c, "won")
        \/ return(c)

SoloSpec == Init /\ [][SoloNext]_vars

\* POST /compress requests only, handled one at a time
CompressNext ==
    \E c \in {"t1"} :
        \/ compress(c)
        \/ return(c)

CompressSpec == Init /\ [][CompressNext]_vars

-----------------------------------------------------------------------------
(* Requests to /memories/add and /memories/retrieve as coroutines of the   *)
(* event loop, from the arrival of the request.  retriever.rank calls      *)
(* SentenceTransformer.encode as a plain function, without an await: the   *)
(* coroutine stays on the event loop until encode returns.                 *)

LoopRequests == {r \in AddRequests : r.interestingness = DefaultInterestingness}
LoopQueries == {"hey", "otter"}

\* a POST /memories/add request arrives
add_memory_arrives(c, req) ==
    /\ pc[c] = "idle"
    /\ Len(memories) < MaxMem \/ AnySameId(memories, req)
    /\ pc' = [pc EXCEPT ![c] = "add_memory"]
    /\ loc' = [loc EXCEPT ![c] = [NoLocals EXCEPT !.record = req]]
    /\ UNCHANGED <<lock, Narrative, Outside>>

\* the handler add_memory, from its first line to its return
add_memory_handled(c) ==
    /\ pc[c] = "add_memory"
    /\ Runnable(c)
    /\ Acquirable
    /\ IF AnySameId(memories, loc[c].record)
       THEN /\ loc' = [loc EXCEPT ![c].response =
                          [status |-> "ok", added |-> FALSE]]
            /\ UNCHANGED <<memories, born>>
       ELSE /\ memories' = Append(memories, loc[c].record)
            /\ born' = Append(born, Birth(loc[c].record))
            /\ loc' = [loc EXCEPT ![c].response =
                          [status |-> "ok", added |-> TRUE]]
    /\ pc' = [pc EXCEPT ![c] = "returned"]
    /\ UNCHANGED <<lock, ndecay, Service, Narrative>>

\* a POST /memories/retrieve request arrives
retrieve_memories_arrives(c, query, limit) ==
    /\ pc[c] = "idle"
    /\ pc' = [pc EXCEPT ![c] = "retrieve"]
    /\ loc' = [loc EXCEPT ![c] = [NoLocals EXCEPT !.query = query,
                                                  !.limit = limit]]
    /\ UNCHANGED <<lock, Narrative, Outside>>

\* the handler retrieve_memories up to the first model.encode call of
\* retriever.rank, or to its return when no such call is made
retrieve_memories_ranks(c) ==
    /\ pc[c] = "retrieve"
    /\ Runnable(c)
    /\ Acquirable
    /\ IF ShortQuery(loc[c].query)
       THEN LET keyed == [i \in DOMAIN memories |->
                            <<memories[i].interestingness, memories[i]>>]
            IN  /\ loc' = [loc EXCEPT ![c].response =
                             [memories |-> Top(SortDesc(keyed), loc[c].limit)]]
                /\ pc' = [pc EXCEPT ![c] = "returned"]
                /\ UNCHANGED cache
       ELSE IF rank(loc[c].query, memories).encodes = 0
            THEN /\ loc' = [loc EXCEPT ![c].response = [memories |-> <<>>]]
                 /\ pc' = [pc EXCEPT ![c] = "returned"]
                 /\ cache' = rank(loc[c].query, memories).cache
            ELSE /\ pc' = [pc EXCEPT ![c] = "encode"]
                 /\ cache' = cache \cap Ids(memories)
                 /\ UNCHANGED loc
    /\ UNCHANGED <<memories, born, ndecay, lock, last_decay, clock, resp,
                   Narrative>>

\* model.encode has returned for every text: the rest of rank, the scoring
\* and the return of the handler
retrieve_memories_encoded(c) ==
    /\ pc[c] = "encode"
    /\ LET r == rank(loc[c].query, memories)
           scored == [i \in DOMAIN r.ranked |->
                         <<Final(r.ranked[i][1], r.ranked[i][2], clock,
                                 loc[c].query),
                           r.ranked[i][2]>>]
       IN  /\ loc' = [loc EXCEPT ![c].response =
                         [memories |-> Top(SortDesc(scored), loc[c].limit)]]
           /\ cache' = r.cache
    /\ pc' = [pc EXCEPT ![c] = "returned"]
    /\ UNCHANGED <<memories, born, ndecay, lock, last_decay, clock, resp,
                   Narrative>>

\* POST /memories/decay, from its arrival to its return
decay_memories_request(c) ==
    /\ pc[c] = "idle"
    /\ Runnable(c)
    /\ Acquirable
    /\ LET now == clock
           minutes == now - last_decay
       IN  IF TooSoon(minutes)
           THEN /\ loc' = [loc EXCEPT ![c] = [NoLocals EXCEPT !.response =
                             [status |-> "skipped", minutes |-> minutes]]]
                /\ UNCHANGED <<memories, born, last_decay, hist>>
           ELSE /\ memories' = DecayLoop(memories, DecayAmount(minutes), 1)
                /\ last_decay' = now
                /\ born' = [i \in DOMAIN born |->
                               [born[i] EXCEPT !.ticks = @ + 1]]
                /\ hist' = [hist EXCEPT !.decayed = @ + DecayAmount(minutes)]
                /\ loc' = [loc EXCEPT ![c] = [NoLocals EXCEPT !.response =
                             [status |-> "ok",
                              decay_amount |-> DecayAmount(minutes),
                              minutes |-> minutes]]]
    /\ pc' = [pc EXCEPT ![c] = "returned"]
    /\ UNCHANGED <<lock, ndecay, clock, cache, resp, narrative_log,
                   ancient_history_log, nnarr>>

\* a bug: self.memories.sort(...) where the code has sorted(self.memories, ...)
SortedInPlace(mems) ==
    LET keyed == [i \in DOMAIN mems |-> <<mems[i].interestingness, mems[i]>>]
    IN  [i \in DOMAIN mems |-> SortDesc(keyed)[i][2]]

\* self.memories after sorted(self.memories, ...), which builds a new list
AfterSorted(mems) == mems

\* text[:n]
Truncated(text, n) == SubSeq(text, 1, Min(n, Len(text)))

\* round(m.interestingness, 3), in thousandths
Rounded(interestingness) == (interestingness * 1000 + Unit \div 2) \div Unit

\* store.get_stats(): the counts and the projection of the top 5 memories
get_stats ==
    LET keyed == [i \in DOMAIN memories |->
                     <<memories[i].interestingness, memories[i]>>]
        top == Top(SortDesc(keyed), TopK)
    IN  [total_memories |-> Len(memories),
         narrative_count |-> Len(narrative_log),
         ancient_count |-> Len(ancient_history_log),
         top_memories |-> [i \in DOMAIN top |->
            [text |-> Truncated(Chars(Content(top[i])), TextCut),
             score |-> Rounded(top[i].interestingness),
             source |-> top[i].source]]]

\* GET /stats, from its arrival to its return
stats(c) ==
    /\ pc[c] = "idle"
    /\ Runnable(c)
    /\ Acquirable
    /\ memories' = AfterSorted(memories)
    /\ loc' = [loc EXCEPT ![c] = [NoLocals EXCEPT !.response = get_stats]]
    /\ pc' = [pc EXCEPT ![c] = "returned"]
    /\ UNCHANGED <<born, ndecay, lock, Service, Narrative>>

\* the steps the event loop takes by itself
Loop(c) ==
    \/ add_memory_handled(c)
    \/ retrieve_memories_ranks(c)
    \/ compress_events(c)
    \/ ancient_len_lock(c)
    \/ ancient_len(c)
    \/ compress_respond(c)

\* the arrivals of requests, the answers of the Summarizer and of the
\* Embedder, the taking of a result
World(c) ==
    \/ \E req \in LoopRequests : add_memory_arrives(c, req)
    \/ \E query \in LoopQueries : retrieve_memories_arrives(c, query, 1)
    \/ retrieve_memories_encoded(c)
    \/ \E events \in EventBatches : compress_call(c, events)
    \/ events_generated(c, "skip")
    \/ events_generate_raises(c)
    \/ return(c)

LoopNext == \E c \in Callers : Loop(c) \/ World(c)

\* the event loop runs its ready coroutines in turn: one that is ready again
\* and again is run; no assumption on when, or whether, the Summarizer and
\* the Embedder answer
LoopSpec ==
    Init /\ [][LoopNext]_vars /\ \A c \in Callers : SF_vars(Loop(c))

-----------------------------------------------------------------------------
(* POST /memories/decay statement by statement, for concurrent requests.   *)
(* hist.decayed is history: the sum of the amounts handed to store.decay   *)
(* by the handler.                                                         *)

\* now = time.time(); minutes = (now - _last_decay) / 60.0; the too_soon
\* return; decay_amount = minutes * MEMORY_DECAY_RATE
decay_memories_reads(c) ==
    /\ pc[c] = "idle"
    /\ Runnable(c)
    /\ LET now == clock
           minutes == now - last_decay
       IN  IF TooSoon(minutes)
           THEN /\ pc' = [pc EXCEPT ![c] = "returned"]
                /\ loc' = [loc EXCEPT ![c] = [NoLocals EXCEPT !.response =
                             [status |-> "skipped", minutes |-> minutes]]]
           ELSE /\ pc' = [pc EXCEPT ![c] = "tick_decay"]
                /\ loc' = [loc EXCEPT ![c] =
                             [NoLocals EXCEPT !.now = now,
                                              !.amount = DecayAmount(minutes)]]
    /\ UNCHANGED <<lock, Narrative, Outside>>

\* store.decay(decay_amount): with self._lock
decay_memories_lock(c) ==
    /\ pc[c] = "tick_decay"
    /\ Acquirable
    /\ lock' = c
    /\ pc' = [pc EXCEPT ![c] = "tick_locked"]
    /\ UNCHANGED <<loc, Narrative, Outside>>

\* the for loop of store.decay, run to its end with the lock held
decay_memories_decays(c) ==
    /\ pc[c] = "tick_locked"
    /\ memories' = DecayLoop(memories, loc[c].amount, 1)
    /\ born' = [i \in DOMAIN born |-> [born[i] EXCEPT !.ticks = @ + 1]]
    /\ hist' = [hist EXCEPT !.decayed = @ + loc[c].amount]
    /\ lock' = NoOne
    /\ pc' = [pc EXCEPT ![c] = "tick_assign"]
    /\ UNCHANGED <<loc, ndecay, Service, narrative_log, ancient_history_log,
                   nnarr>>

\* _last_decay = now; return {"status": "ok", ...}
decay_memories_assigns(c) ==
    /\ pc[c] = "tick_assign"
    /\ last_decay' = loc[c].now
    /\ pc' = [pc EXCEPT ![c] = "returned"]
    /\ loc' = [loc EXCEPT ![c].response =
                  [status |-> "ok", decay_amount |-> loc[c].amount]]
    /\ UNCHANGED <<memories, born, ndecay, lock, clock, cache, resp,
                   Narrative>>

\* concurrent Decay ticks and adds while time passes
TickNext ==
    \/ \E c \in Callers :
          \/ \E req \in LoopRequests : add_memory_arrives(c, req)
          \/ add_memory_handled(c)
          \/ decay_memories_reads(c)
          \/ decay_memories_lock(c)
          \/ decay_memories_decays(c)
          \/ decay_memories_assigns(c)
          \/ return(c)
    \/ \E seconds \in ClockSteps : tick(seconds)

TickSpec == Init /\ [][TickNext]_vars

FrameRequests == {r \in AddRequests : r.id \in {"m1", "m3"}}

\* every kind of request, one at a time, while time passes
FrameNext ==
    \/ \E c \in {"t1"} :
          \/ \E req \in FrameRequests : add_memory_arrives(c, req)
          \/ add_memory_handled(c)
          \/ \E query \in LoopQueries : retrieve_memories_arrives(c, query, 1)
          \/ retrieve_memories_ranks(c)
          \/ retrieve_memories_encoded(c)
          \/ decay_memories_request(c)
          \/ stats(c)
          \/ compress(c)
          \/ add_narrative(c, "won")
          \/ return(c)
    \/ tick(DECAY_INTERVAL_SECONDS)

FrameSpec == Init /\ [][FrameNext]_vars

-----------------------------------------------------------------------------
(* Claims about MemoryStore under concurrent threads *)

SameId(record) == {i \in DOMAIN memories : memories[i].id = record.id}
AddReturns(c) == pc[c] \in {"add_check", "add_append"} /\ pc'[c] = "returned"
AddReturned(c) == pc[c] = "returned" /\ loc[c].record # NoRecord

\* C1: add_memory on a tier holding a record with the same id returns false
\* and leaves the tier as it is; on a tier without that id it appends the
\* record at the end, the length grows by exactly 1, and it returns true.
C1_AddMemoryContract ==
    [][\A c \in Callers : AddReturns(c) =>
          IF SameId(loc[c].record) # {}
          THEN /\ loc'[c].ret = FALSE
               /\ memories' = memories
          ELSE /\ loc'[c].ret = TRUE
               /\ Len(memories') = Len(memories) + 1
               /\ \A i \in DOMAIN memories : memories'[i] = memories[i]
               /\ memories'[Len(memories')] = loc[c].record]_vars

\* one call was accepted, and a retry with the same id and other fields was
\* refused while the stored record kept its fields
C1_Witness ==
    \E c1, c2 \in Callers :
        /\ AddReturned(c1) /\ loc[c1].ret
        /\ AddReturned(c2) /\ ~loc[c2].ret
        /\ loc[c1].record.id = loc[c2].record.id
        /\ loc[c1].record # loc[c2].record
        /\ \E i \in DOMAIN memories : memories[i] = loc[c1].record

\* C2: no reachable tier holds two records with the same id; of two calls
\* that both started while the id was new, exactly one returns true and the
\* tier holds exactly one record with that id.
C2_UniqueIds ==
    /\ \A i, j \in DOMAIN memories :
          memories[i].id = memories[j].id => i = j
    /\ \A c1, c2 \in Callers :
          ( /\ c1 # c2
            /\ AddReturned(c1) /\ AddReturned(c2)
            /\ loc[c1].fresh /\ loc[c2].fresh
            /\ loc[c1].record.id = loc[c2].record.id )
          => /\ loc[c1].ret # loc[c2].ret
             /\ Cardinality(SameId(loc[c1].record)) = 1

\* two calls that raced for the same new id have both returned
C2_Witness ==
    \E c1, c2 \in Callers :
        /\ c1 # c2
        /\ AddReturned(c1) /\ AddReturned(c2)
        /\ loc[c1].fresh /\ loc[c2].fresh
        /\ loc[c1].record.id = loc[c2].record.id
        /\ loc[c1].record # loc[c2].record

PopReturns(c) == pc[c] \in {"pop_check", "pop_assign"} /\ pc'[c] = "returned"
Holding(c) == IF pc[c] \in {"pop_assign", "returned"} /\ loc[c].count > 0
              THEN Range(loc[c].chunk) ELSE {}

\* C3: pop_narrative_chunk(n) on fewer than n entries returns an empty chunk
\* and leaves the tier as it is; otherwise it returns the n oldest entries in
\* order and leaves the others in order; two poppers never hold a common entry.
C3_PopContract ==
    /\ [][\A c \in Callers : PopReturns(c) =>
            LET n == loc[c].count
                old == narrative_log
            IN  IF Len(old) < n
                THEN /\ loc'[c].chunk = <<>>
                     /\ narrative_log' = old
                ELSE /\ loc'[c].chunk = [i \in 1..n |-> old[i]]
                     /\ Len(narrative_log') = Len(old) - n
                     /\ \A i \in 1..(Len(old) - n) :
                            narrative_log'[i] = old[i + n]]_vars
    /\ [](\A c1, c2 \in Callers :
            c1 # c2 => Holding(c1) \cap Holding(c2) = {})

\* one popper got the two oldest entries, the other found too few and got none
C3_Witness ==
    \E c1, c2 \in Callers :
        /\ pc[c1] = "returned" /\ loc[c1].count = 2 /\ loc[c1].chunk = <<1, 2>>
        /\ pc[c2] = "returned" /\ loc[c2].count = 2 /\ loc[c2].chunk = <<>>
        /\ Len(narrative_log) = 1

DecayReturns(c) == pc[c] = "decay_loop" /\ pc'[c] = "returned"
Lost(importance, amount) ==
    IF importance > HalfRateAbove THEN amount \div 2 ELSE amount

\* C4: one decay call sets every memory's importance to
\* max(0.1, importance - amount * factor), factor 0.5 when the importance
\* before the call is strictly above 0.9 and 1.0 otherwise, chosen per memory;
\* nothing else of the tier changes.
C4_DecayFormula ==
    [][\A c \in Callers : DecayReturns(c) =>
          /\ DOMAIN memories' = DOMAIN memories
          /\ \A i \in DOMAIN memories :
                LET before == memories[i].interestingness
                    after == before - Lost(before, loc[c].amount)
                IN  memories'[i] = [memories[i] EXCEPT !.interestingness =
                        IF after < DecayFloor THEN DecayFloor ELSE after]]_vars

\* the first decay call has returned: a memory stored above 0.9 lost half the
\* amount, a memory stored at exactly 0.9 lost all of it
C4_Witness ==
    /\ ndecay = 1
    /\ \E c \in Callers : pc[c] = "returned" /\ loc[c].amount = 480
    /\ \E i, j \in DOMAIN memories :
          /\ born[i].interestingness > HalfRateAbove
          /\ memories[i].interestingness = born[i].interestingness - 240
          /\ born[j].interestingness = HalfRateAbove
          /\ memories[j].interestingness = born[j].interestingness - 480

-----------------------------------------------------------------------------
(* Claims about the importance of stored memories *)

Importance(i) == memories[i].interestingness

\* C5: in every reachable state every stored record has an importance within
\* [0.1, 1.0], whatever importance the caller supplied.
C5_ImportanceInRange ==
    \A i \in DOMAIN memories : DecayFloor <= Importance(i) /\ Importance(i) <= Unit

\* C6: no step of any operation raises the importance of a stored memory.
C6_NeverIncreases ==
    [][\A i \in DOMAIN memories :
          memories'[i].interestingness <= memories[i].interestingness]_vars

\* C7: a Decay tick applies decay exactly when at least 60 seconds have passed
\* since last_decay; applied, it decays every memory once by
\* (elapsed minutes) * 0.05 and sets last_decay to now; skipped, it reports
\* "skipped" and changes neither an importance nor last_decay.
C7_DecayTick ==
    [][decay_memories =>
          LET elapsed == clock - last_decay
              amount == 2 * elapsed
          IN  IF elapsed >= 60
              THEN /\ resp'.status = "ok"
                   /\ resp'.decay_amount = amount
                   /\ last_decay' = clock
                   /\ DOMAIN memories' = DOMAIN memories
                   /\ \A i \in DOMAIN memories :
                         LET after == Importance(i) - Lost(Importance(i), amount)
                         IN  memories'[i] =
                                [memories[i] EXCEPT !.interestingness =
                                    IF after < DecayFloor THEN DecayFloor ELSE after]
              ELSE /\ resp'.status = "skipped"
                   /\ memories' = memories
                   /\ last_decay' = last_decay]_vars

\* a tick exactly 60 seconds after the last one was applied
C7_Witness ==
    /\ resp.op = "decay" /\ resp.status = "ok" /\ resp.minutes = 60
    /\ last_decay = clock
    /\ \E i \in DOMAIN memories : Importance(i) < born[i].interestingness

\* what one applied tick covering `seconds` leaves of an importance
AfterOneTick(importance, seconds) ==
    LET after == importance - Lost(importance, 2 * seconds)
    IN  IF after < DecayFloor THEN DecayFloor ELSE after

\* C8 as stated: after any series of applied ticks a memory has the importance
\* that one applied tick covering the same time would have left.
C8_SplitIndependent ==
    \A i \in DOMAIN memories :
        born[i].ticks > 0 =>
            Importance(i) = AfterOneTick(born[i].interestingness,
                                         last_decay - born[i].last_decay)

\* C8 amended: the same, for the memories whose importance was at most 0.9
\* when the series of ticks began.
C8_SplitIndependentUpTo09 ==
    \A i \in DOMAIN memories :
        born[i].ticks > 0 /\ born[i].interestingness <= HalfRateAbove =>
            Importance(i) = AfterOneTick(born[i].interestingness,
                                         last_decay - born[i].last_decay)

\* a memory stored at 0.5 has been through two applied ticks
C8_Witness ==
    \E i \in DOMAIN memories :
        /\ born[i].ticks = 2
        /\ born[i].interestingness = DefaultInterestingness
        /\ Importance(i) < born[i].interestingness
        /\ Importance(i) > DecayFloor

-----------------------------------------------------------------------------
(* Claims about retrieval *)

SetMin(S) == CHOOSE x \in S : \A y \in S : x <= y
SetMax(S) == CHOOSE x \in S : \A y \in S : x >= y
NonSpace(s) == {i \in DOMAIN s : s[i] # " "}
TrimmedLen(s) ==
    IF NonSpace(s) = {} THEN 0 ELSE SetMax(NonSpace(s)) - SetMin(NonSpace(s)) + 1
Trimmed == [name \in DOMAIN Literal |-> TrimmedLen(Chars(name))]
Retrieved == resp'.op = "retrieve" /\ resp' # resp

\* the sequence that lists the indices of S by key descending, equal keys by
\* index ascending, cut to its first n entries
Listed(out, S, key, n) ==
    LET Ahead(i) == {j \in S : key[j] > key[i] \/ (key[j] = key[i] /\ j < i)}
    IN  /\ DOMAIN out = 1..n
        /\ \A i \in S : Cardinality(Ahead(i)) < n =>
               out[Cardinality(Ahead(i)) + 1] = memories[i]

\* C9: for a query that is empty or shorter than 5 characters once trimmed and
\* a limit >= 0, Retrieve returns the min(limit, number of memories) memories
\* of highest importance, by importance descending and, among equals, in store
\* order; the query's content plays no part and the Embedder is not called.
C9_Fallback ==
    [][Retrieved /\ Trimmed[resp'.query] < 5 =>
          LET l == resp'.limit
          IN  /\ Listed(resp'.memories, DOMAIN memories,
                        [i \in DOMAIN memories |-> Importance(i)],
                        IF l < Len(memories) THEN l ELSE Len(memories))
              /\ resp'.encodes = 0
              /\ cache' = cache]_vars

\* a query of 6 characters, 3 once trimmed, got the 2 most important of 3
\* memories, the two of equal importance in the order they were stored
C9_Witness ==
    /\ resp.op = "retrieve" /\ resp.query = "hey" /\ resp.limit = 2
    /\ Len(memories) = 3
    /\ Len(resp.memories) = 2
    /\ \E i, j \in DOMAIN memories :
          /\ i < j
          /\ Importance(i) = Importance(j)
          /\ resp.memories = <<memories[i], memories[j]>>

DisplayText(m) ==
    IF m.memory_text # None /\ Len(Chars(m.memory_text)) > 0
    THEN m.memory_text ELSE m.text
Tokens(text) == {w \in LowerWords[text] : Len(w) >= 5}

\* final = sem*0.6 + importance*0.3 + recency*0.1 [+ 0.2] [+ overlap boost]
\* in units of 1/864000, with recency = max(0, 1 - age_hours/24)
Hybrid(q, m) ==
    LET sem == Similarity(q, DisplayText(m))
        age == clock - m.timestamp
        recency01 == IF age >= 86400 THEN 0 ELSE 86400 - age
        overlap == Cardinality(Tokens(q) \cap Tokens(DisplayText(m)))
    IN  sem * 5184 + m.interestingness * 108 + recency01
          + (IF sem > 80 THEN 172800 ELSE 0)
          + (IF overlap >= 3 THEN 129600 ELSE overlap * 43200)

-----------------------------------------------------------------------------
(* Claims about failures of the Embedder and the Summarizer *)

\* C11: a Retrieve request never fails because of the Embedder: it answers
\* with a result, not an error; the memories stay in the store; the result
\* is made of stored memories only, at most `limit` of them, and for a scored
\* query only of memories that have a display text.
C11_RetrieveNeverFails ==
    [][Retrieved =>
          /\ "memories" \in DOMAIN resp'
          /\ memories' = memories
          /\ Len(resp'.memories) <= resp'.limit
          /\ \A k \in DOMAIN resp'.memories :
                /\ \E i \in DOMAIN memories : resp'.memories[k] = memories[i]
                /\ Trimmed[resp'.query] >= 5 =>
                       Len(Chars(DisplayText(resp'.memories[k]))) > 0]_vars

InEvents == {"compress", "events_generate", "events_append",
             "events_append_locked"}
EventsReturns(c) == pc[c] \in InEvents /\ pc'[c] = "ancient_len"
AppendsOne(log) ==
    /\ Len(log') = Len(log) + 1
    /\ \A i \in DOMAIN log : log'[i] = log[i]

\* the responses the claim lists: empty once trimmed; the [SKIP] marker in
\* mixed case; only a Note: line; 10 characters or fewer once cleaned
Refused == {"blank", "skip", "note", "quoted", "ten", "here"}

\* C12: compress_events never raises to its caller; it returns true if and
\* only if it appended exactly one entry to the end of the narrative tier,
\* and changes no tier otherwise; with an empty batch (and then without a
\* Summarizer call), a Summarizer exception or one of the refused responses
\* it returns false.
C12_CompressEvents ==
    [][\A c \in Callers :
          /\ pc[c] \in InEvents /\ pc'[c] # pc[c] =>
                /\ pc'[c] \in InEvents \cup {"ancient_len"}
                /\ memories' = memories
                /\ ancient_history_log' = ancient_history_log
                /\ IF EventsReturns(c) /\ loc'[c].narrative_added
                   THEN /\ AppendsOne(narrative_log)
                        /\ narrative_log'[Len(narrative_log')].text = loc[c].text
                   ELSE narrative_log' = narrative_log
          /\ compress_events(c) /\ loc[c].events = <<>> =>
                EventsReturns(c) /\ ~loc'[c].narrative_added /\ loc'[c].calls = 0
          /\ events_generate_raises(c) =>
                EventsReturns(c) /\ ~loc'[c].narrative_added
          /\ \A response \in Refused : events_generated(c, response) =>
                EventsReturns(c) /\ ~loc'[c].narrative_added]_vars

\* one request's compress_events appended the narrative it got, another's
\* made its Summarizer call and added nothing
C12_Witness ==
    \E c1, c2 \in Callers :
        /\ pc[c1] = "returned" /\ loc[c1].narrative_added
        /\ loc[c1].calls = 1
        /\ \E i \in DOMAIN narrative_log : narrative_log[i].text = loc[c1].text
        /\ pc[c2] = "returned" /\ ~loc[c2].narrative_added
        /\ loc[c2].events # <<>> /\ loc[c2].calls = 1

-----------------------------------------------------------------------------
(* Claims about compress_ancient *)

AncientDone(c) == pc[c] \in {"respond", "returned"} /\ loc[c].start.taken

\* C13: compress_ancient run alone on a narrative tier of length L: if
\* L < 10 it calls no Summarizer, changes no tier and returns false; if
\* L >= 10 it removes exactly the 5 oldest narrative entries, the others
\* staying in order, and a response longer than 15 characters once cleaned
\* makes it append exactly one ancient entry and return true.
C13_CompressAncientAlone ==
    /\ [](\A c \in Callers : AncientDone(c) =>
            LET before == loc[c].start
                L == Len(before.narrative)
            IN  IF L < 10
                THEN /\ loc[c].calls = before.calls
                     /\ narrative_log = before.narrative
                     /\ ancient_history_log = before.ancient
                     /\ ~loc[c].ancient_added
                ELSE /\ loc[c].calls = before.calls + 1
                     /\ narrative_log = [i \in 1..(L - 5) |-> before.narrative[i + 5]]
                     /\ IF loc[c].ancient_added
                        THEN /\ Len(ancient_history_log) = Len(before.ancient) + 1
                             /\ \A i \in DOMAIN before.ancient :
                                    ancient_history_log[i] = before.ancient[i]
                        ELSE ancient_history_log = before.ancient)
    /\ [][\A c \in Callers :
            /\ ancient_generated(c, "sum") => pc'[c] = "ancient_append"
            /\ pc[c] = "ancient_append" /\ pc'[c] # pc[c] =>
                  pc'[c] = "ancient_append_locked"
            /\ pc[c] = "ancient_append_locked" /\ pc'[c] # pc[c] =>
                  pc'[c] = "respond" /\ loc'[c].ancient_added]_vars

\* compress_ancient began on 10 narrative entries and returned true: 5 are
\* left and the ancient tier has one entry more
C13_Witness ==
    \E c \in Callers :
        /\ pc[c] = "returned" /\ loc[c].ancient_added
        /\ Len(loc[c].start.narrative) = 10
        /\ Len(narrative_log) = 5
        /\ Len(ancient_history_log) = Len(loc[c].start.ancient) + 1

-----------------------------------------------------------------------------
(* Claims about snapshots *)

HoldsSnapshot(c) == pc[c] = "returned" /\ loc[c].snapshot # <<>>

\* C14: the records of a sequence returned by get_all keep the membership,
\* the order and the field values, importance included, that they had when
\* the snapshot was taken, whatever add_memory and decay calls follow.
C14_SnapshotIsCopy ==
    \A c \in Callers :
        HoldsSnapshot(c) => Deref(loc[c].snapshot) = loc[c].taken

-----------------------------------------------------------------------------
(* Claims about the lock and the external calls *)

Waiting(c) == pc[c] \in {"events_generate", "ancient_generate", "encode"}

\* C15: a caller waiting on a Summarizer or Embedder call never holds the
\* store lock; so, while one caller's external call stalls forever, an
\* add_memory issued by another caller still completes.
C15_NoLockAcrossCalls ==
    /\ [](\A c \in Callers : Waiting(c) => lock # c)
    /\ \A c \in Callers : (pc[c] = "add_memory") ~> (pc[c] = "returned")

\* the first half of C15 alone
C15_LockFreeWhileWaiting == \A c \in Callers : Waiting(c) => lock # c

\* the second half of C15 for the Summarizer alone: an add_memory issued
\* while no Embedder call is running completes
C15_SummarizerStall ==
    \A c \in Callers :
        (pc[c] = "add_memory" /\ \A d \in Callers : pc[d] # "encode")
            ~> (pc[c] = "returned" \/ \E d \in Callers : pc[d] = "encode")

-----------------------------------------------------------------------------
(* Claims about the order of the narrative and ancient tiers *)

Suffixes(log) == {SubSeq(log, k + 1, Len(log)) : k \in 0..Len(log)}
Pops(c) == pc[c] \in {"pop_assign", "ancient_pop_locked"} /\ pc'[c] # pc[c]

\* C16: in every reachable state the ancient tier is the sequence of all
\* entries ever appended to it, in append order, and the narrative tier is
\* the sequence of all entries ever appended to it, in append order, with
\* some prefix removed; a step that is not a pop keeps every narrative
\* entry in place, and a pop removes from the oldest end only.
C16_AppendOrder ==
    /\ [](ancient_history_log = hist.ancient)
    /\ [](narrative_log \in Suffixes(hist.narrative))
    /\ [][/\ narrative_log' \in Suffixes(narrative_log)
               \cup {narrative_log \o <<e>> : e \in Range(narrative_log')}
          /\ Len(narrative_log') < Len(narrative_log) =>
                \E c \in Callers : Pops(c)]_vars

\* two chunks have been rolled up and summarised in the order of their
\* removal, while narratives appended since are waiting
C16_Witness ==
    /\ Len(ancient_history_log) = 2
    /\ ancient_history_log[1].of[1].n = 1
    /\ ancient_history_log[2].of[1].n = 6
    /\ Len(narrative_log) >= 2
    /\ narrative_log[1].n = 11

-----------------------------------------------------------------------------
(* Claims about what the operations leave alone *)

ImportanceMoved ==
    \E i \in DOMAIN memories :
        memories'[i].interestingness # memories[i].interestingness

\* C17: no step removes or reorders a memory, or changes the id, timestamp,
\* source, text or memory_text of a stored memory; only a decay changes an
\* importance and only an add lengthens the tier, so that Retrieve, Stats,
\* the narrative and ancient operations and both compressions leave the
\* memory tier unchanged.
C17_MemoryTierFrame ==
    [][/\ Len(memories') >= Len(memories)
       /\ \A i \in DOMAIN memories :
             memories'[i] = [memories[i] EXCEPT !.interestingness =
                                memories'[i].interestingness]
       /\ ImportanceMoved => \E c \in Callers : decay_memories_request(c)
       /\ Len(memories') > Len(memories) =>
             \E c \in Callers : add_memory_handled(c)
       /\ \A c \in Callers :
             pc[c] \notin {"idle", "add_memory"} /\ pc'[c] # pc[c] =>
                memories' = memories
       /\ \A c \in Callers :
             stats(c) \/ add_narrative(c, "won") => memories' = memories]_vars

\* Stats has answered on a tier of two memories whose store order is not
\* their order of importance, after a decay and a roll-up
C17_Witness ==
    \E c \in Callers :
        /\ pc[c] = "returned"
        /\ "top_memories" \in DOMAIN loc[c].response
        /\ Len(loc[c].response.top_memories) = 2
        /\ Len(memories) = 2
        /\ memories[1].interestingness < memories[2].interestingness
        /\ memories[2].interestingness < born[2].interestingness
        /\ Len(ancient_history_log) = 1

-----------------------------------------------------------------------------
(* Claims about concurrent roll-ups *)

Removes == Len(narrative_log') < Len(narrative_log)

\* C18: under every interleaving of compress requests a chunk is removed
\* from the narrative tier only when the tier holds at least 10 entries at
\* that moment; a caller whose pop finds fewer than 5 entries removes
\* nothing, makes no Summarizer call and returns false.
C18_RemovalAtThreshold ==
    [][/\ Removes => Len(narrative_log) >= 10
       /\ \A c \in Callers :
             ancient_pop(c) /\ Len(narrative_log) < 5 =>
                /\ narrative_log' = narrative_log
                /\ loc'[c].calls = loc[c].calls
                /\ pc'[c] = "respond" /\ ~loc'[c].ancient_added]_vars

\* two requests are both waiting for the summary of the chunk each one
\* removed
C18_Witness ==
    \E c1, c2 \in Callers :
        /\ pc[c1] = "ancient_generate" /\ pc[c2] = "ancient_generate"
        /\ Len(loc[c1].chunk) = 5 /\ Len(loc[c2].chunk) = 5
        /\ loc[c1].chunk[1].n = 1 /\ loc[c2].chunk[1].n = 6

Summarises(a, e) == \E i \in DOMAIN a.of : a.of[i] = e

Removed(chunk) == \E k \in DOMAIN hist.chunks : hist.chunks[k] = chunk

StillInTier(a) ==
    \E j \in DOMAIN narrative_log : Summarises(a, narrative_log[j])

\* C19: for every chunk rolled up, the removal of its entries from the
\* narrative tier strictly precedes the append of its summary: no ancient
\* entry is visible while a narrative entry it summarises is still in the
\* narrative tier, the ancient entries appended never outnumber the chunks
\* removed, and every append is of a chunk removed at an earlier step.
C19_RemovalBeforeAppend ==
    /\ [](/\ \A i \in DOMAIN ancient_history_log :
                ~StillInTier(ancient_history_log[i])
          /\ Len(hist.ancient) <= Len(hist.chunks))
    /\ [][Len(hist.ancient') > Len(hist.ancient) =>
             LET a == hist.ancient'[Len(hist.ancient')] IN
             /\ Removed(a.of)
             /\ ~StillInTier(a)
             /\ narrative_log' = narrative_log]_vars

\* one summary is visible next to later narrative entries while another
\* chunk, removed already, is still with the Summarizer
C19_Witness ==
    /\ Len(ancient_history_log) = 1
    /\ Len(narrative_log) > 0
    /\ Len(hist.chunks) = 2
    /\ \E c \in Callers : pc[c] = "ancient_generate"

-----------------------------------------------------------------------------
(* Claims about a roll-up whose summary is not obtained *)

Short(response) == Len(CleanedOf[response]) <= 15

\* the Summarizer call of compress_ancient fails or returns a short summary
Fails(c) ==
    \/ ancient_generate_raises(c)
    \/ \E response \in AncientResponses :
          Short(response) /\ ancient_generated(c, response)

InFlight(chunk) ==
    \E c \in Callers :
        /\ pc[c] \in {"ancient_generate", "ancient_append",
                       "ancient_append_locked"}
        /\ loc[c].chunk = chunk

Archived(chunk) == \E i \in DOMAIN hist.ancient : hist.ancient[i].of = chunk

\* the chunks removed that no caller works on and no ancient entry summarises
LostChunks == {chunk \in Range(hist.chunks) : ~InFlight(chunk) /\ ~Archived(chunk)}

BackInTier(chunk) ==
    \E i \in DOMAIN chunk, j \in DOMAIN narrative_log :
        narrative_log[j] = chunk[i]

\* C20: when the Summarizer call of compress_ancient fails, or returns a
\* summary of 15 characters or fewer once cleaned, compress_ancient returns
\* false without raising, the ancient tier is unchanged, the chunk removed
\* is not put back and stays lost, and no second Summarizer call is made;
\* every compress_events and compress_ancient invocation makes at most one
\* Summarizer call.
C20_FailedRollUp ==
    /\ [][\A c \in Callers :
            /\ Fails(c) =>
                  /\ pc'[c] = "respond" /\ ~loc'[c].ancient_added
                  /\ ancient_history_log' = ancient_history_log
                  /\ narrative_log' = narrative_log
                  /\ loc'[c].calls = loc[c].calls
                  /\ loc[c].chunk \in LostChunks'
            /\ LostChunks \subseteq LostChunks']_vars
    /\ [](/\ \A chunk \in LostChunks : ~BackInTier(chunk)
          /\ \A c \in Callers :
                IF loc[c].start.taken
                THEN /\ loc[c].start.calls <= 1
                     /\ loc[c].calls - loc[c].start.calls <= 1
                ELSE loc[c].calls <= 1)

\* a request returns after its roll-up lost a chunk, next to an ancient
\* entry of an earlier roll-up and to newer narrative entries
C20_Witness ==
    \E c \in Callers :
        /\ pc[c] = "returned" /\ loc[c].start.taken
        /\ loc[c].calls = 2 /\ ~loc[c].response.ancient_added
        /\ loc[c].chunk \in LostChunks
        /\ Len(loc[c].response.ancient) = 1
        /\ Len(loc[c].response.narrative) > 0

-----------------------------------------------------------------------------
(* Claims about the Compress request *)

EventsCompleted(c) ==
    \/ compress_events(c) /\ loc[c].events = <<>>
    \/ \E response \in EventResponses :
          ~NarrativeOf[response].add /\ events_generated(c, response)
    \/ events_generate_raises(c)
    \/ events_append(c)

\* the request's compress_events appended to a tier of 9 entries, and its
\* compress_ancient has returned
RolledFromNine(c) ==
    /\ AncientDone(c)
    /\ loc[c].entry # NoEntry
    /\ Len(loc[c].start.narrative) = 10

OldestAtCheck(c) == SubSeq(loc[c].start.narrative, 1, 5)

SummaryVisible(chunk) ==
    \E i \in DOMAIN ancient_history_log : ancient_history_log[i].of = chunk

\* every Compress request completes compress_events, whatever its outcome,
\* before the threshold check of compress_ancient, which counts the entry
\* the request appended
CheckAfterEvents ==
    [][\A c \in Callers :
         /\ pc'[c] = "ancient_len" /\ pc[c] # "ancient_len" => EventsCompleted(c)
         /\ loc'[c].start.taken /\ ~loc[c].start.taken =>
               /\ pc[c] = "ancient_len"
               /\ loc[c].narrative_added = (loc[c].entry # NoEntry)
               /\ loc[c].entry # NoEntry =>
                     /\ narrative_log # <<>>
                     /\ narrative_log[Len(narrative_log)] = loc[c].entry
                     /\ loc'[c].start.narrative = narrative_log]_vars

\* the flags of the response equal what the two steps appended
FlagsTrue ==
    \A c \in Callers :
        pc[c] = "returned" /\ loc[c].start.taken =>
            /\ loc[c].response.narrative_added = (loc[c].entry # NoEntry)
            /\ loc[c].response.narrative_added =
                  (\E i \in DOMAIN hist.narrative :
                      hist.narrative[i] = loc[c].entry)
            /\ loc[c].response.ancient_added =
                  (loc[c].chunk # <<>> /\ Archived(loc[c].chunk))

\* C21 as stated: every Compress request completes compress_events before
\* the threshold check of compress_ancient, so the entry it appended counts;
\* a Compress whose compress_events appends to a tier of 9 entries rolls
\* the 5 oldest entries into ancient history in the same request; the flags
\* of the response equal what the two steps appended.
C21_SameRequestRollUp ==
    /\ CheckAfterEvents
    /\ [](FlagsTrue /\
          \A c \in Callers : RolledFromNine(c) =>
              /\ loc[c].chunk = OldestAtCheck(c)
              /\ Removed(loc[c].chunk) /\ ~BackInTier(loc[c].chunk)
              /\ SummaryVisible(loc[c].chunk) /\ loc[c].ancient_added)

\* C21, amended: the 5 oldest entries are removed in the same request, and
\* their summary is appended to ancient history exactly when the Summarizer
\* returned one (ancient_added tells which).
C21_SameRequestRollUpIfSummarised ==
    /\ CheckAfterEvents
    /\ [](FlagsTrue /\
          \A c \in Callers : RolledFromNine(c) =>
              /\ loc[c].chunk = OldestAtCheck(c)
              /\ Removed(loc[c].chunk) /\ ~BackInTier(loc[c].chunk)
              /\ SummaryVisible(loc[c].chunk) = loc[c].ancient_added)
    /\ [][\A c \in Callers :
            /\ \A response \in AncientResponses :
                  ancient_generated(c, response) /\ ~Short(response) =>
                     pc'[c] = "ancient_append"
            /\ pc[c] = "ancient_append" /\ pc'[c] # pc[c] =>
                  pc'[c] = "ancient_append_locked"
            /\ pc[c] = "ancient_append_locked" /\ pc'[c] # pc[c] =>
                  SummaryVisible(loc[c].chunk)' /\ loc'[c].ancient_added]_vars

\* a Compress request appended the tenth narrative entry and returns with
\* both flags set, after the 5 oldest entries became one ancient entry
C21_Witness ==
    \E c \in Callers :
        /\ pc[c] = "returned" /\ RolledFromNine(c)
        /\ loc[c].response.narrative_added /\ loc[c].response.ancient_added
        /\ SummaryVisible(OldestAtCheck(c))

\* C22: when narrative entries enter only through Compress requests handled
\* one at a time, the narrative tier holds at most 10 entries in every
\* state, and fewer than 10 whenever no Compress request is being handled.
C22_NarrativeBounded ==
    /\ Len(narrative_log) <= 10
    /\ (\A c \in Callers : pc[c] \in {"idle", "returned"}) =>
          Len(narrative_log) < 10

\* the tier holds 10 entries for the second time, after a roll-up, and the
\* request is about to remove a chunk again
C22_Witness ==
    /\ Len(narrative_log) = 10
    /\ Len(hist.chunks) = 1
    /\ pc["t1"] = "ancient_pop_locked"

-----------------------------------------------------------------------------
(* Claims about concurrent Decay ticks *)

Ticking(c) == pc[c] \in {"tick_decay", "tick_locked", "tick_assign"}

\* C23: under every interleaving of concurrent Decay tick requests the sum
\* of the amounts handed to decay never exceeds the decay rate times the
\* minutes elapsed since the initial last_decay_time (0 here), and equals
\* the decay rate times the minutes from then to last_decay_time whenever
\* no tick is in progress.
C23_NoSpanDecayedTwice ==
    /\ hist.decayed * 60 <= MEMORY_DECAY_RATE * clock
    /\ (\A c \in Callers : ~Ticking(c)) =>
          hist.decayed * 60 = MEMORY_DECAY_RATE * last_decay

\* two requests have returned, one applied and one skipped as too soon,
\* after two ticks in all were applied to a stored memory
C23_Witness ==
    /\ \E c, d \in Callers :
          /\ pc[c] = "returned" /\ loc[c].response.status = "ok"
          /\ pc[d] = "returned" /\ loc[d].response.status = "skipped"
    /\ last_decay = 120
    /\ hist.decayed = 240
    /\ memories # <<>>

-----------------------------------------------------------------------------
(* Claims about the order of importance *)

\* the fallback ranking of main.py on a tier: its (importance, id) pairs
FallbackRanking(mems) ==
    SortDesc([i \in DOMAIN mems |-> <<mems[i].interestingness, mems[i].id>>])

Outranks(mems, a, b) ==
    \E p, q \in DOMAIN mems :
        /\ p < q
        /\ FallbackRanking(mems)[p][2] = a
        /\ FallbackRanking(mems)[q][2] = b

\* a decay never turns importance(a) >= importance(b) into its opposite
OrderKept ==
    \A i, j \in DOMAIN memories :
        memories[i].interestingness >= memories[j].interestingness =>
            memories'[i].interestingness >= memories'[j].interestingness

\* C24 as stated: decay never inverts the importance order of two stored
\* memories, and so a memory never overtakes one that outranked it in the
\* fallback ranking.
C24_RankingKept ==
    [][/\ OrderKept
       /\ \A i, j \in DOMAIN memories :
             Outranks(memories, memories[i].id, memories[j].id) =>
                Outranks(memories', memories[i].id, memories[j].id)]_vars

\* C24, amended: decay never inverts the importance order of two stored
\* memories; a memory gets ahead of one that outranked it in the fallback
\* ranking only when decay has brought both to the floor and it is the
\* older of the two in the store.
C24_RankingKeptUpToFloorTies ==
    [][/\ OrderKept
       /\ \A i, j \in DOMAIN memories :
             Outranks(memories, memories[i].id, memories[j].id) =>
                \/ Outranks(memories', memories[i].id, memories[j].id)
                \/ /\ memories[i].interestingness > memories[j].interestingness
                   /\ memories'[i].interestingness = DecayFloor
                   /\ memories'[j].interestingness = DecayFloor
                   /\ j < i]_vars

\* two decays have brought to the floor a memory stored at 0.9 and an older
\* one stored at 0.5
C24_Witness ==
    /\ Len(memories) = 2 /\ ndecay = 2
    /\ born[1].interestingness = DefaultInterestingness
    /\ born[2].interestingness = HalfRateAbove
    /\ memories[1].interestingness = DecayFloor
    /\ memories[2].interestingness = DecayFloor
    /\ \A c \in Callers : pc[c] \in {"idle", "returned"}

====
